---- MODULE Spec2Model ----
(***************************************************************************)
(* Model of light_sensor/opt3001.py: class OPT3001, which drives an        *)
(* OPT3001 light sensor behind an SM-USB-DIG adapter.  The transport       *)
(* (out_endpoint.write, in_endpoint.read) is the environment: each call    *)
(* either raises or succeeds, and a successful read returns a buffer the   *)
(* device chose.                                                           *)
(*                                                                         *)
(* A Python str is a sequence of one-character strings, a bytes object a   *)
(* sequence of integers 0..255; a value handed to write carries its type.  *)
(***************************************************************************)
EXTENDS Integers, Sequences, FiniteSets, TLC

(***************************************************************************)
(* Bounds of the model (not program constants).                            *)
(***************************************************************************)
\* how far outside [0, 15] the register positions tried by a caller reach
AddrMargin == 2
\* how far outside [0, 12] the lux_full_scale values tried by a caller reach
FullScaleMargin == 2

(***************************************************************************)
(* Program constants.                                                      *)
(***************************************************************************)
NumRegisters == 16
ReadAllCount == 16
ReadLength == 32
HighIndex == 9
LowIndex == 11
AutoFullScale == 12
DefaultConvertionTime == 800
FastConvertionTime == 100
\* LUX_FACTOR = 0.01, expressed in hundredths of a lux
LUX_FACTOR == 1


OperationModes_Shifted ==
    [shutdown |-> 0, single_shot |-> 64, conntinuous |-> 128,
     conntinuous_3 |-> 192]

OperationModes ==
    [shutdown |-> 0, single_shot |-> 2, conntinuous |-> 4, conntinuous_3 |-> 6]

ModeNames == DOMAIN OperationModes

(***************************************************************************)
(* Python built-ins used by the code.                                      *)
(***************************************************************************)
LowerDigits ==
    <<"0","1","2","3","4","5","6","7","8","9","a","b","c","d","e","f">>

UpperDigits ==
    <<"0","1","2","3","4","5","6","7","8","9","A","B","C","D","E","F">>

RECURSIVE HexDigitsOf(_)
\* the lowercase hexadecimal digits of n >= 0, most significant first
HexDigitsOf(n) ==
    IF n < 16 THEN <<LowerDigits[n + 1]>>
    ELSE Append(HexDigitsOf(n \div 16), LowerDigits[(n % 16) + 1])

\* hex(n): "0x.." for n >= 0, "-0x.." for n < 0
PyHex(n) ==
    IF n < 0 THEN <<"-", "0", "x">> \o HexDigitsOf(0 - n)
    ELSE <<"0", "x">> \o HexDigitsOf(n)

\* str[2:]
DropTwo(str) == SubSeq(str, 3, Len(str))

RECURSIVE Zeros(_)
Zeros(k) == IF k <= 0 THEN << >> ELSE <<"0">> \o Zeros(k - 1)

\* str.zfill(width): pads with "0" on the left, after a leading sign
Zfill(str, width) ==
    IF Len(str) >= width THEN str
    ELSE IF Len(str) > 0 /\ str[1] \in {"+", "-"}
         THEN <<str[1]>> \o Zeros(width - Len(str)) \o Tail(str)
         ELSE Zeros(width - Len(str)) \o str

IsSpace(c) == c = " "

IsHexDigit(c) ==
    \E i \in 1..16 : c = LowerDigits[i] \/ c = UpperDigits[i]

HexVal(c) ==
    (CHOOSE i \in 1..16 : c = LowerDigits[i] \/ c = UpperDigits[i]) - 1

RECURSIVE FromHexOK(_)
\* bytes.fromhex accepts str: whitespace is skipped between pairs of digits
FromHexOK(str) ==
    IF str = << >> THEN TRUE
    ELSE IF IsSpace(str[1]) THEN FromHexOK(Tail(str))
    ELSE /\ Len(str) >= 2
         /\ IsHexDigit(str[1])
         /\ IsHexDigit(str[2])
         /\ FromHexOK(SubSeq(str, 3, Len(str)))

RECURSIVE FromHex(_)
\* bytes.fromhex(str), for a str it accepts
FromHex(str) ==
    IF str = << >> THEN << >>
    ELSE IF IsSpace(str[1]) THEN FromHex(Tail(str))
    ELSE <<16 * HexVal(str[1]) + HexVal(str[2])>>
             \o FromHex(SubSeq(str, 3, Len(str)))

RECURSIVE BitAnd(_, _)
\* x & y for x, y >= 0
BitAnd(x, y) ==
    IF x = 0 \/ y = 0 THEN 0
    ELSE (x % 2) * (y % 2) + 2 * BitAnd(x \div 2, y \div 2)

\* x << n
ShiftLeft(x, n) == x * (2 ^ n)

\* x >> n for x >= 0
ShiftRight(x, n) == x \div (2 ^ n)

\* the values handed to the transport
Bytes(data) == [type |-> "bytes", data |-> data]

Str(data) == [type |-> "str", data |-> data]

(***************************************************************************)
(* The string literals of the two command builders.                        *)
(***************************************************************************)
\* "02 01 00 0E AE FC 00 03 "
ReadHeaderText ==
    <<"0","2"," ","0","1"," ","0","0"," ","0","E"," ","A","E"," ","F","C"," ",
      "0","0"," ","0","3"," ">>

\* "88 06 " before {hex_pos}
ReadPrefixText == <<"8","8"," ","0","6"," ">>

\* " 06 04 03 89 06 " after {hex_pos}
ReadSuffixText ==
    <<" ","0","6"," ","0","4"," ","0","3"," ","8","9"," ","0","6"," ">>

\* "FF 05 FF 05 04 00 00 00 "
ReadTrailerText ==
    <<"F","F"," ","0","5"," ","F","F"," ","0","5"," ","0","4"," ","0","0"," ",
      "0","0"," ","0","0"," ">>

\* "00 00 00 00 00 00 00 00 "
ZeroText ==
    <<"0","0"," ","0","0"," ","0","0"," ","0","0"," ","0","0"," ","0","0"," ",
      "0","0"," ","0","0"," ">>

\* "02 01 00 0A AA C0 00 03 "
ConfigHeaderText ==
    <<"0","2"," ","0","1"," ","0","0"," ","0","A"," ","A","A"," ","C","0"," ",
      "0","0"," ","0","3"," ">>

\* "88 06 01 06 " before {lux_full_scale_hex}{mode_hex}
ConfigPrefixText == <<"8","8"," ","0","6"," ","0","1"," ","0","6"," ">>

\* " 06 10 06 " after {lux_full_scale_hex}{mode_hex}
ConfigSuffixText == <<" ","0","6"," ","1","0"," ","0","6"," ">>

\* "04 00 00 00 00 00 00 00 "
ConfigTrailerText ==
    <<"0","4"," ","0","0"," ","0","0"," ","0","0"," ","0","0"," ","0","0"," ",
      "0","0"," ","0","0"," ">>

\* "04 03 00 00 00 00 00 00 "
TriggerHeaderText ==
    <<"0","4"," ","0","3"," ","0","0"," ","0","0"," ","0","0"," ","0","0"," ",
      "0","0"," ","0","0"," ">>

(***************************************************************************)
(* read_register, lines 57-63: the command for one register.               *)
(***************************************************************************)
\* mutant: the hex digits without zfill(2)
hex_pos_NoFill(position) == DropTwo(PyHex(position))

hex_pos(position) == Zfill(DropTwo(PyHex(position)), 2)

ReadRegisterText(position) ==
    ReadHeaderText \o ReadPrefixText \o hex_pos(position) \o ReadSuffixText
        \o ReadTrailerText \o ZeroText

ReadRegisterCommand(position) == Bytes(FromHex(ReadRegisterText(position)))

(***************************************************************************)
(* set_configuration, lines 91-99 and 103-108: the two commands.           *)
(***************************************************************************)
lux_full_scale_hex(lux_full_scale) == Zfill(DropTwo(PyHex(lux_full_scale)), 2)

convertion_time_multiplier(convertion_time) ==
    IF convertion_time = FastConvertionTime THEN 1 ELSE 2

mode_hex(convertion_time, mode) ==
    DropTwo(PyHex(OperationModes[mode]
                      * convertion_time_multiplier(convertion_time)))

\* the str assigned to s and handed to write as it is, without fromhex
ConfigurationCommand(lux_full_scale, convertion_time, mode) ==
    Str(ConfigHeaderText \o ConfigPrefixText
            \o lux_full_scale_hex(lux_full_scale)
            \o mode_hex(convertion_time, mode)
            \o ConfigSuffixText \o ConfigTrailerText \o ZeroText)

\* the str literal of the second write
TriggerCommand ==
    Str(TriggerHeaderText \o ZeroText \o ZeroText \o ZeroText)

(***************************************************************************)
(* read_lux, lines 74-78, on the pair read_register returned.              *)
(***************************************************************************)
exponent(a) == ShiftRight(BitAnd(a, 240), 4)

\* mutant: the low nibble shifted by 4 instead of 8
mantisa_Shift4(a, b) == ShiftLeft(BitAnd(a, 15), 4) + b

mantisa(a, b) == ShiftLeft(BitAnd(a, 15), 8) + b

\* the value returned, in hundredths of a lux
Lux(a, b) == ShiftLeft(1, exponent(a)) * mantisa(a, b) * LUX_FACTOR

(***************************************************************************)
(* State.                                                                  *)
(***************************************************************************)
VARIABLES
    session,       \* "none", "constructing", "ready" or "failed": the object
    op,            \* the public operation running, or the last one run
    pc,            \* the line the operation stands at; "idle" between calls
    args,          \* the arguments of the call
    s,             \* the local s: the command built for the next write
    output_bytes,  \* the local output_bytes of read_register
    log,           \* transport events of the operation, in order
    ctorLog,       \* transport events of __init__, in order
    result,        \* what the operation returned or raised
    k,             \* the k of the comprehension of read_all_registers
    results,       \* the list the comprehension has built so far
    pending,       \* device: commands written and not yet answered, oldest first
    answered,      \* the command the last read of the operation was the reply to
    configured,    \* the handshake started last has done both its steps
    remembered,    \* the commands of one earlier handshake, once observed
    second         \* a second thread calling read_register on the same object

vars ==
    <<session, op, pc, args, s, output_bytes, log, ctorLog, result,
      k, results, pending, answered, configured, remembered, second>>

NoArgs ==
    [position |-> 0, lux_full_scale |-> 0, convertion_time |-> 0,
     mode |-> "shutdown"]

NoCommand == [type |-> "none", data |-> << >>]

NoBytes == [len |-> 0 - 1, data |-> << >>]

NoResult == [kind |-> "none"]

Raised(err) == [kind |-> "error", err |-> err]

NoMemory ==
    [by |-> "none", args |-> NoArgs, first |-> NoCommand,
     second |-> NoCommand]

\* the locals of a thread that is not inside read_register
SecondIdle ==
    [pc |-> "idle", position |-> 0, s |-> NoCommand, output_bytes |-> NoBytes,
     result |-> NoResult, answered |-> NoCommand]

\* transport events; by is the method whose line made the call
WriteEvent(by, data, ok) == [ev |-> "write", by |-> by, data |-> data, ok |-> ok]

SleepEvent(by) == [ev |-> "sleep", by |-> by]

ReadEvent(by, n, ok) == [ev |-> "read", by |-> by, n |-> n, ok |-> ok]

(***************************************************************************)
(* Inputs of the callers and of the device.                                *)
(***************************************************************************)
PositionInputs == (0 - AddrMargin)..(NumRegisters - 1 + AddrMargin)

FullScaleInputs == (0 - FullScaleMargin)..(AutoFullScale + FullScaleMargin)

ConvertionTimeInputs == {50, FastConvertionTime, DefaultConvertionTime}

Byte == 0..255

SampleBytes == {0, 26, 43, 255}

FillBytes == {0, 165}

\* lengths of the buffer a read of 32 may return
ResponseLengths ==
    {0, HighIndex, HighIndex + 1, LowIndex, LowIndex + 1, ReadLength}

\* a buffer of length len holding hi at offset 9 and lo at offset 11
Response(len, hi, lo, fill) ==
    [len |-> len,
     data |-> [i \in 1..len |->
                  IF i = HighIndex + 1 THEN hi
                  ELSE IF i = LowIndex + 1 THEN lo
                  ELSE fill]]

Init ==
    /\ session = "none"
    /\ op = "none"
    /\ pc = "idle"
    /\ args = NoArgs
    /\ s = NoCommand
    /\ output_bytes = NoBytes
    /\ log = << >>
    /\ ctorLog = << >>
    /\ result = NoResult
    /\ k = 0
    /\ results = << >>
    /\ pending = << >>
    /\ answered = NoCommand
    /\ configured = FALSE
    /\ remembered = NoMemory
    /\ second = SecondIdle

\* the device answers in the order of arrival: a write that goes through
\* queues its command, a read takes the reply to the oldest command; a read
\* that raises takes that reply with it
PendingAfter(e) ==
    IF e.ev = "write" THEN (IF e.ok THEN Append(pending, e.data) ELSE pending)
    ELSE IF e.ev = "read" /\ pending # << >> THEN Tail(pending)
    ELSE pending

\* the command whose reply a read has returned
AnsweredBy(e, before) ==
    IF e.ev # "read" THEN before
    ELSE IF e.ok /\ pending # << >> THEN Head(pending)
    ELSE NoCommand

\* a transport call is recorded for the operation, and for __init__ if it runs
Emit(e) ==
    /\ log' = Append(log, e)
    /\ ctorLog' = IF op = "__init__" THEN Append(ctorLog, e) ELSE ctorLog
    /\ pending' = PendingAfter(e)
    /\ answered' = AnsweredBy(e, answered)

\* an exception leaves the operation; out of __init__ it leaves no object
Raise(operation, err) ==
    /\ pc' = "idle"
    /\ result' = Raised(err)
    /\ session' = IF operation = "__init__" THEN "failed" ELSE session

\* a normal return of the public operation
Return(operation, value) ==
    /\ pc' = "idle"
    /\ result' = value
    /\ session' = IF operation = "__init__" THEN "ready" ELSE session

(***************************************************************************)
(* __init__, lines 30-52.                                                  *)
(***************************************************************************)
\* lines 31-37: usb.core.find found no device and returned None
InitNoDevice ==
    /\ session = "none"
    /\ op' = "__init__"
    /\ Raise("__init__", "AttributeError")
    /\ UNCHANGED <<args, s, output_bytes, log, ctorLog>>
    /\ UNCHANGED <<k, results, pending, answered, configured, remembered, second>>


EnterSetConfiguration_StaleMode(lux_full_scale, convertion_time, mode) ==
    /\ args' = [NoArgs EXCEPT !.lux_full_scale = lux_full_scale,
                              !.convertion_time = convertion_time,
                              !.mode = mode]
    /\ s' = ConfigurationCommand(lux_full_scale, convertion_time, args.mode)
    /\ pc' = "cfg_write"
    /\ configured' = FALSE

\* lines 91-99, entered from a call: the command is built, nothing is checked
EnterSetConfiguration(lux_full_scale, convertion_time, mode) ==
    /\ args' = [NoArgs EXCEPT !.lux_full_scale = lux_full_scale,
                              !.convertion_time = convertion_time,
                              !.mode = mode]
    /\ s' = ConfigurationCommand(lux_full_scale, convertion_time, mode)
    /\ pc' = "cfg_write"
    /\ configured' = FALSE

\* mutant: __init__ returns without calling set_configuration
InitConfigure_NoHandshake ==
    /\ session = "none"
    /\ op' = "__init__"
    /\ Return("__init__", [kind |-> "None"])
    /\ UNCHANGED <<args, s, output_bytes, log, ctorLog>>
    /\ UNCHANGED <<k, results, pending, answered, configured, remembered, second>>

\* lines 31-52: the device is found and set_configuration is called
InitConfigure ==
    /\ session = "none"
    /\ session' = "constructing"
    /\ op' = "__init__"
    /\ EnterSetConfiguration(AutoFullScale, DefaultConvertionTime, "conntinuous")
    /\ UNCHANGED <<output_bytes, log, ctorLog, result>>
    /\ UNCHANGED <<k, results, pending, answered, remembered, second>>

(***************************************************************************)
(* set_configuration, lines 84-109.                                        *)
(***************************************************************************)
\* a call returns to a caller whose locals are fresh
FreshLocals ==
    /\ output_bytes' = NoBytes
    /\ k' = 0
    /\ results' = << >>
    /\ answered' = NoCommand

\* set_configuration called with arguments of the sets given
CallSetConfigurationOf(fullScales, times) ==
    /\ session = "ready"
    /\ pc = "idle"
    /\ op' = "set_configuration"
    /\ log' = << >>
    /\ result' = NoResult
    /\ FreshLocals
    /\ \E lux_full_scale \in fullScales,
          convertion_time \in times,
          mode \in ModeNames :
          EnterSetConfiguration(lux_full_scale, convertion_time, mode)
    /\ UNCHANGED <<session, ctorLog, pending, remembered, second>>

CallSetConfiguration ==
    CallSetConfigurationOf(FullScaleInputs, ConvertionTimeInputs)

\* line 100: self.out_endpoint.write(s)
ConfigWrite ==
    /\ pc = "cfg_write"
    /\ \E ok \in BOOLEAN :
          /\ Emit(WriteEvent("set_configuration", s, ok))
          /\ IF ok
             THEN pc' = "cfg_sleep" /\ UNCHANGED <<session, result>>
             ELSE Raise(op, "USBError")
    /\ UNCHANGED <<op, args, s, output_bytes>>
    /\ UNCHANGED <<k, results, configured, remembered, second>>

\* mutant: after the delay the second command is written at once
ConfigSleep_SkipRead ==
    /\ pc = "cfg_sleep"
    /\ Emit(SleepEvent("set_configuration"))
    /\ pc' = "trg_write"
    /\ UNCHANGED <<session, op, args, s, output_bytes, result>>
    /\ UNCHANGED <<k, results, configured, remembered, second>>

\* line 101: sleep(self.WAIT_AFTER_WRITE)
ConfigSleep ==
    /\ pc = "cfg_sleep"
    /\ Emit(SleepEvent("set_configuration"))
    /\ pc' = "cfg_read"
    /\ UNCHANGED <<session, op, args, s, output_bytes, result>>
    /\ UNCHANGED <<k, results, configured, remembered, second>>


ConfigRead_Swallow ==
    /\ pc = "cfg_read"
    /\ \E ok \in BOOLEAN :
          /\ Emit(ReadEvent("set_configuration", ReadLength, ok))
          /\ pc' = "trg_write"
          /\ UNCHANGED <<session, result>>
    /\ UNCHANGED <<op, args, s, output_bytes>>
    /\ UNCHANGED <<k, results, configured, remembered, second>>

\* line 102: self.in_endpoint.read(32), the buffer is dropped
ConfigRead ==
    /\ pc = "cfg_read"
    /\ \E ok \in BOOLEAN :
          /\ Emit(ReadEvent("set_configuration", ReadLength, ok))
          /\ IF ok
             THEN pc' = "trg_write" /\ UNCHANGED <<session, result>>
             ELSE Raise(op, "USBError")
    /\ UNCHANGED <<op, args, s, output_bytes>>
    /\ UNCHANGED <<k, results, configured, remembered, second>>


TriggerWrite_NoRead ==
    /\ pc = "trg_write"
    /\ \E ok \in BOOLEAN :
          /\ Emit(WriteEvent("set_configuration", TriggerCommand, ok))
          /\ IF ok
             THEN Return(op, [kind |-> "None"])
             ELSE Raise(op, "USBError")
    /\ UNCHANGED <<op, args, s, output_bytes>>
    /\ UNCHANGED <<k, results, configured, remembered, second>>

\* lines 103-108: self.out_endpoint.write("04 03 00 ...")
TriggerWrite ==
    /\ pc = "trg_write"
    /\ \E ok \in BOOLEAN :
          /\ Emit(WriteEvent("set_configuration", TriggerCommand, ok))
          /\ IF ok
             THEN pc' = "trg_read" /\ UNCHANGED <<session, result>>
             ELSE Raise(op, "USBError")
    /\ UNCHANGED <<op, args, s, output_bytes>>
    /\ UNCHANGED <<k, results, configured, remembered, second>>

\* line 109: self.in_endpoint.read(32), the buffer is dropped; then return
TriggerRead ==
    /\ pc = "trg_read"
    /\ \E ok \in BOOLEAN :
          /\ Emit(ReadEvent("set_configuration", ReadLength, ok))
          /\ configured' = ok
          /\ IF ok
             THEN Return(op, [kind |-> "None"])
             ELSE Raise(op, "USBError")
    /\ UNCHANGED <<op, args, s, output_bytes>>
    /\ UNCHANGED <<k, results, remembered, second>>

(***************************************************************************)
(* read_register, lines 54-67, and read_lux, lines 72-78.                  *)
(***************************************************************************)
\* mutant: the upper limit is off by one
BadPosition_OffByOne(position) == position < 0 \/ position > NumRegisters

\* line 55: the positions read_register refuses
BadPosition(position) == position < 0 \/ position >= NumRegisters

\* lines 55-63, entered from a call
EnterReadRegister(operation, position) ==
    /\ args' = [NoArgs EXCEPT !.position = position]
    /\ IF BadPosition(position)
       THEN /\ Raise(operation, "ValueError")
            /\ s' = NoCommand
       ELSE IF ~FromHexOK(ReadRegisterText(position))
       THEN /\ Raise(operation, "ValueError")
            /\ s' = NoCommand
       ELSE /\ s' = ReadRegisterCommand(position)
            /\ pc' = "rr_write"
            /\ result' = NoResult
            /\ UNCHANGED session

\* read_register called with a position of the set given
CallReadRegisterOf(positions) ==
    /\ session = "ready"
    /\ pc = "idle"
    /\ op' = "read_register"
    /\ log' = << >>
    /\ FreshLocals
    /\ \E position \in positions :
          EnterReadRegister("read_register", position)
    /\ UNCHANGED <<ctorLog, pending, configured, remembered>>

CallReadRegister ==
    /\ CallReadRegisterOf(PositionInputs)
    /\ UNCHANGED second


CallReadLux_Register1 ==
    /\ session = "ready"
    /\ pc = "idle"
    /\ op' = "read_lux"
    /\ log' = << >>
    /\ FreshLocals
    /\ EnterReadRegister("read_lux", 1)
    /\ UNCHANGED <<ctorLog, pending, configured, remembered, second>>

\* line 73: a, b = self.read_register(0)
CallReadLux ==
    /\ session = "ready"
    /\ pc = "idle"
    /\ op' = "read_lux"
    /\ log' = << >>
    /\ FreshLocals
    /\ EnterReadRegister("read_lux", 0)
    /\ UNCHANGED <<ctorLog, pending, configured, remembered, second>>

\* line 64: self.out_endpoint.write(s)
ReadRegisterWrite ==
    /\ pc = "rr_write"
    /\ \E ok \in BOOLEAN :
          /\ Emit(WriteEvent("read_register", s, ok))
          /\ IF ok
             THEN pc' = "rr_sleep" /\ UNCHANGED <<session, result>>
             ELSE Raise(op, "USBError")
    /\ UNCHANGED <<op, args, s, output_bytes>>
    /\ UNCHANGED <<k, results, configured, remembered, second>>

\* mutant: read_register does not sleep between write and read
ReadRegisterSleep_Omitted ==
    /\ pc = "rr_sleep"
    /\ pc' = "rr_read"
    /\ UNCHANGED <<session, op, args, s, output_bytes, log, ctorLog, result>>
    /\ UNCHANGED <<k, results, pending, answered, configured, remembered, second>>

\* line 65: sleep(self.WAIT_AFTER_WRITE)
ReadRegisterSleep ==
    /\ pc = "rr_sleep"
    /\ Emit(SleepEvent("read_register"))
    /\ pc' = "rr_read"
    /\ UNCHANGED <<session, op, args, s, output_bytes, result>>
    /\ UNCHANGED <<k, results, configured, remembered, second>>

\* line 66: output_bytes = self.in_endpoint.read(32); the device puts bytes
\* of the set values at offsets 9 and 11 and one of the set fills elsewhere
ReadRegisterReadOf(values, fills) ==
    /\ pc = "rr_read"
    /\ \E ok \in BOOLEAN :
          /\ Emit(ReadEvent("read_register", ReadLength, ok))
          /\ IF ok
             THEN /\ \E len \in ResponseLengths, hi \in values, lo \in values,
                        fill \in fills :
                        output_bytes' = Response(len, hi, lo, fill)
                  /\ pc' = "rr_return"
                  /\ UNCHANGED <<session, result>>
             ELSE /\ Raise(op, "USBError")
                  /\ UNCHANGED output_bytes
    /\ UNCHANGED <<op, args, s>>
    /\ UNCHANGED <<k, results, configured, remembered, second>>

\* line 66 with a device that answers with a few values
ReadRegisterRead == ReadRegisterReadOf(SampleBytes, FillBytes)

\* line 66 with a device that answers with any value
ReadRegisterReadAny == ReadRegisterReadOf(Byte, {0})

\* output_bytes[i] raises IndexError unless i < len(output_bytes)
InRange(buffer, i) == i < buffer.len

\* output_bytes[i]
At(buffer, i) == buffer.data[i + 1]

\* mutant: the two bytes are taken from offsets 9 and 10
ReadRegisterValue_Adjacent(buffer) ==
    [kind |-> "pair", a |-> At(buffer, HighIndex),
     b |-> At(buffer, HighIndex + 1)]

\* line 67: return output_bytes[9], output_bytes[11]
ReadRegisterValue(buffer) ==
    [kind |-> "pair", a |-> At(buffer, HighIndex), b |-> At(buffer, LowIndex)]

\* lines 73-78: the pair unpacked into a, b and turned into lux
ReadLuxValue(pair) == [kind |-> "lux", val |-> Lux(pair.a, pair.b)]

\* line 70: read_register returns its pair into the comprehension
ReturnToReadAll(pair) ==
    /\ pc' = "ra_collect"
    /\ result' = pair
    /\ UNCHANGED session

\* line 67, and for read_lux lines 73-78 on the pair returned
ReadRegisterReturn ==
    /\ pc = "rr_return"
    /\ IF ~InRange(output_bytes, HighIndex) \/ ~InRange(output_bytes, LowIndex)
       THEN Raise(op, "IndexError")
       ELSE IF op = "read_lux"
       THEN Return(op, ReadLuxValue(ReadRegisterValue(output_bytes)))
       ELSE IF op = "read_all"
       THEN ReturnToReadAll(ReadRegisterValue(output_bytes))
       ELSE Return(op, ReadRegisterValue(output_bytes))
    /\ UNCHANGED <<op, args, s, output_bytes, log, ctorLog>>
    /\ UNCHANGED <<k, results, pending, answered, configured, remembered, second>>

(***************************************************************************)
(* read_all_registers, lines 69-70.                                        *)
(***************************************************************************)
\* line 70: the comprehension starts with k = 0
CallReadAll ==
    /\ session = "ready"
    /\ pc = "idle"
    /\ op' = "read_all"
    /\ log' = << >>
    /\ output_bytes' = NoBytes
    /\ k' = 0
    /\ results' = << >>
    /\ answered' = NoCommand
    /\ EnterReadRegister("read_all", 0)
    /\ UNCHANGED <<ctorLog, pending, configured, remembered, second>>


ReadAllCollect_Prepend ==
    /\ pc = "ra_collect"
    /\ results' = <<result>> \o results
    /\ k' = k + 1
    /\ IF k + 1 < ReadAllCount
       THEN EnterReadRegister("read_all", k + 1)
       ELSE /\ Return(op, [kind |-> "list", items |-> <<result>> \o results])
            /\ UNCHANGED <<args, s>>
    /\ UNCHANGED <<op, output_bytes, log, ctorLog>>
    /\ UNCHANGED <<pending, answered, configured, remembered, second>>

\* line 70: the pair is appended; the next k is read, or the list returned
ReadAllCollect ==
    /\ pc = "ra_collect"
    /\ results' = Append(results, result)
    /\ k' = k + 1
    /\ IF k + 1 < ReadAllCount
       THEN EnterReadRegister("read_all", k + 1)
       ELSE /\ Return(op, [kind |-> "list", items |-> Append(results, result)])
            /\ UNCHANGED <<args, s>>
    /\ UNCHANGED <<op, output_bytes, log, ctorLog>>
    /\ UNCHANGED <<pending, answered, configured, remembered, second>>

(***************************************************************************)
(* A device with sixteen registers of known content.                       *)
(***************************************************************************)
\* the content of the registers: a high byte and a low byte each
RegisterFile == [r \in 0..15 |-> [hi |-> 17 * r, lo |-> 255 - r]]

\* the register a command written by read_register asks for (offset 10)
AddressOf(command) == command.data[11]

\* the reply of the device to a command, cut to len bytes
ReplyTo(command, len) ==
    IF command.type = "bytes"
    THEN Response(len, RegisterFile[AddressOf(command)].hi,
                  RegisterFile[AddressOf(command)].lo, 0)
    ELSE Response(len, 0, 0, 0)

\* line 66 with the device of known content: the reply is the one to the
\* oldest command the device has not answered yet, cut to one of the lengths
ReadRegisterReadDeviceOf(lengths) ==
    /\ pc = "rr_read"
    /\ \E ok \in BOOLEAN :
          /\ Emit(ReadEvent("read_register", ReadLength, ok))
          /\ IF ok
             THEN /\ \E len \in lengths :
                        output_bytes' =
                            IF pending = << >> THEN Response(len, 0, 0, 0)
                            ELSE ReplyTo(Head(pending), len)
                  /\ pc' = "rr_return"
                  /\ UNCHANGED <<session, result>>
             ELSE /\ Raise(op, "USBError")
                  /\ UNCHANGED output_bytes
    /\ UNCHANGED <<op, args, s>>
    /\ UNCHANGED <<k, results, configured, remembered, second>>

ReadRegisterReadDevice == ReadRegisterReadDeviceOf(ResponseLengths)

\* the arguments a caller that reconfigures tries in the fuller specification
FewFullScales == {0, AutoFullScale, AutoFullScale + 1}

FewConvertionTimes == {FastConvertionTime, DefaultConvertionTime}

CallSetConfigurationFew ==
    CallSetConfigurationOf(FewFullScales, FewConvertionTimes)


\* register positions tried between two configurations
FewPositions == {0, NumRegisters - 1, NumRegisters}

CallReadRegisterFew ==
    /\ CallReadRegisterOf(FewPositions)
    /\ UNCHANGED second

\* observer: the commands of a handshake that has returned are kept, once
Remember ==
    /\ remembered = NoMemory
    /\ op \in {"__init__", "set_configuration"}
    /\ pc = "idle"
    /\ result = [kind |-> "None"]
    /\ remembered' =
           [by |-> op, args |-> args, first |-> log[1].data,
            second |-> log[4].data]
    /\ UNCHANGED <<session, op, pc, args, s, output_bytes, log, ctorLog,
                   result, k, results, pending, answered, configured, second>>

(***************************************************************************)
(* A second thread calling read_register, lines 54-67, on the same object. *)
(***************************************************************************)
\* the positions the two threads ask for, and the lengths of the replies
ThreadPositions == {0, 5, NumRegisters - 1, NumRegisters}

ThreadLengths == {LowIndex, ReadLength}

\* the first thread calls when the second is outside read_register
CallReadRegisterThreads ==
    /\ second.pc = "idle"
    /\ second' = SecondIdle
    /\ CallReadRegisterOf(ThreadPositions)

ReadRegisterReadThreads == ReadRegisterReadDeviceOf(ThreadLengths)

\* everything the second thread leaves alone
FirstThread ==
    <<session, op, pc, args, s, output_bytes, ctorLog, result,
      k, results, answered, configured, remembered>>

\* a transport call of the second thread
EmitSecond(e) ==
    /\ log' = Append(log, [e EXCEPT !.by = "second"])
    /\ pending' = PendingAfter(e)

\* lines 55-63 in the second thread, called once while the first thread
\* is inside read_register
SecondCallReadRegister ==
    /\ session = "ready"
    /\ second = SecondIdle
    /\ pc # "idle"
    /\ \E position \in ThreadPositions :
          second' =
              IF BadPosition(position)
              THEN [SecondIdle EXCEPT !.position = position,
                                      !.result = Raised("ValueError")]
              ELSE [SecondIdle EXCEPT !.position = position,
                                      !.pc = "rr_write",
                                      !.s = ReadRegisterCommand(position)]
    /\ UNCHANGED <<FirstThread, log, pending>>


SecondWrite_Locked ==
    /\ second.pc = "rr_write"
    /\ pc = "idle"
    /\ \E ok \in BOOLEAN :
          /\ EmitSecond(WriteEvent("read_register", second.s, ok))
          /\ second' =
                 IF ok THEN [second EXCEPT !.pc = "rr_sleep"]
                 ELSE [second EXCEPT !.pc = "idle",
                                     !.result = Raised("USBError")]
    /\ UNCHANGED FirstThread

\* line 64 in the second thread
SecondWrite ==
    /\ second.pc = "rr_write"
    /\ \E ok \in BOOLEAN :
          /\ EmitSecond(WriteEvent("read_register", second.s, ok))
          /\ second' =
                 IF ok THEN [second EXCEPT !.pc = "rr_sleep"]
                 ELSE [second EXCEPT !.pc = "idle",
                                     !.result = Raised("USBError")]
    /\ UNCHANGED FirstThread

\* line 65 in the second thread
SecondSleep ==
    /\ second.pc = "rr_sleep"
    /\ EmitSecond(SleepEvent("read_register"))
    /\ second' = [second EXCEPT !.pc = "rr_read"]
    /\ UNCHANGED FirstThread

\* line 66 in the second thread
SecondRead ==
    /\ second.pc = "rr_read"
    /\ \E ok \in BOOLEAN :
          /\ EmitSecond(ReadEvent("read_register", ReadLength, ok))
          /\ IF ok
             THEN \E len \in ThreadLengths :
                      second' =
                          [second EXCEPT
                              !.pc = "rr_return",
                              !.answered =
                                  AnsweredBy(ReadEvent("read_register",
                                                       ReadLength, ok),
                                             second.answered),
                              !.output_bytes =
                                  IF pending = << >>
                                  THEN Response(len, 0, 0, 0)
                                  ELSE ReplyTo(Head(pending), len)]
             ELSE second' = [second EXCEPT !.pc = "idle",
                                           !.result = Raised("USBError")]
    /\ UNCHANGED FirstThread

\* line 67 in the second thread
SecondReturn ==
    /\ second.pc = "rr_return"
    /\ second' =
           [second EXCEPT
               !.pc = "idle",
               !.result =
                   IF \/ ~InRange(second.output_bytes, HighIndex)
                      \/ ~InRange(second.output_bytes, LowIndex)
                   THEN Raised("IndexError")
                   ELSE ReadRegisterValue(second.output_bytes)]
    /\ UNCHANGED <<FirstThread, log, pending>>

Next ==
    \/ InitNoDevice
    \/ InitConfigure
    \/ CallSetConfiguration
    \/ ConfigWrite
    \/ ConfigSleep
    \/ ConfigRead
    \/ TriggerWrite
    \/ TriggerRead
    \/ CallReadRegister
    \/ CallReadLux
    \/ ReadRegisterWrite
    \/ ReadRegisterSleep
    \/ ReadRegisterRead
    \/ ReadRegisterReturn

Spec == Init /\ [][Next]_vars

(***************************************************************************)
(* The script of lines 113-125: one object, then read_lux again and again, *)
(* against a device that may answer with any bytes.                        *)
(***************************************************************************)
NextScript ==
    \/ InitNoDevice
    \/ InitConfigure
    \/ ConfigWrite
    \/ ConfigSleep
    \/ ConfigRead
    \/ TriggerWrite
    \/ TriggerRead
    \/ CallReadLux
    \/ ReadRegisterWrite
    \/ ReadRegisterSleep
    \/ ReadRegisterReadAny
    \/ ReadRegisterReturn

SpecScript == Init /\ [][NextScript]_vars

(***************************************************************************)
(* Every operation of the class, one caller, against the device of known   *)
(* content.                                                                *)
(***************************************************************************)
NextDevice ==
    \/ InitNoDevice
    \/ InitConfigure
    \/ CallSetConfigurationFew
    \/ ConfigWrite
    \/ ConfigSleep
    \/ ConfigRead
    \/ TriggerWrite
    \/ TriggerRead
    \/ CallReadRegister
    \/ CallReadLux
    \/ CallReadAll
    \/ ReadRegisterWrite
    \/ ReadRegisterSleep
    \/ ReadRegisterReadDevice
    \/ ReadRegisterReturn
    \/ ReadAllCollect

SpecDevice == Init /\ [][NextDevice]_vars

(***************************************************************************)
(* A caller that reconfigures between reads; one earlier handshake is kept *)
(* for comparison.                                                         *)
(***************************************************************************)
NextReconfigure ==
    \/ InitNoDevice
    \/ InitConfigure
    \/ CallSetConfigurationFew
    \/ ConfigWrite
    \/ ConfigSleep
    \/ ConfigRead
    \/ TriggerWrite
    \/ TriggerRead
    \/ CallReadRegisterFew
    \/ CallReadLux
    \/ ReadRegisterWrite
    \/ ReadRegisterSleep
    \/ ReadRegisterReadDevice
    \/ ReadRegisterReturn
    \/ Remember

SpecReconfigure == Init /\ [][NextReconfigure]_vars

(***************************************************************************)
(* Two threads calling read_register on one object, without a lock.        *)
(***************************************************************************)
NextThreads ==
    \/ InitNoDevice
    \/ InitConfigure
    \/ ConfigWrite
    \/ ConfigSleep
    \/ ConfigRead
    \/ TriggerWrite
    \/ TriggerRead
    \/ CallReadRegisterThreads
    \/ ReadRegisterWrite
    \/ ReadRegisterSleep
    \/ ReadRegisterReadThreads
    \/ ReadRegisterReturn
    \/ SecondCallReadRegister
    \/ SecondWrite
    \/ SecondSleep
    \/ SecondRead
    \/ SecondReturn

SpecThreads == Init /\ [][NextThreads]_vars

(***************************************************************************)
(* Properties.                                                             *)
(***************************************************************************)
IsWrite(e) == e.ev = "write"

IsRead(e) == e.ev = "read"

IsSleep(e) == e.ev = "sleep"

\* a call on the transport that raised
Failed(e) == (IsWrite(e) \/ IsRead(e)) /\ ~e.ok

\* the write of the second command of set_configuration
IsTriggerWrite(e) ==
    /\ IsWrite(e)
    /\ e.by = "set_configuration"
    /\ e.data = TriggerCommand

\* both steps of a handshake done: write, sleep, read, write, read, none failed
HandshakeDone(l) ==
    /\ Len(l) = 5
    /\ IsWrite(l[1]) /\ l[1].ok /\ ~IsTriggerWrite(l[1])
    /\ IsSleep(l[2])
    /\ IsRead(l[3]) /\ l[3].ok
    /\ IsTriggerWrite(l[4]) /\ l[4].ok
    /\ IsRead(l[5]) /\ l[5].ok

\* C1: no read-register command is written before the handshake run by
\* __init__ has completed both steps without a failure; if a write or a read
\* of that handshake fails, construction fails, and without an object no
\* read operation runs.
ConfigureBeforeRead ==
    /\ \A i \in DOMAIN log :
          (IsWrite(log[i]) /\ log[i].by = "read_register")
              => (session = "ready" /\ HandshakeDone(ctorLog))
    /\ (\E i \in DOMAIN ctorLog : Failed(ctorLog[i])) => session = "failed"
    /\ session = "ready" => HandshakeDone(ctorLog)
    /\ session # "ready" =>
          /\ op \in {"none", "__init__"}
          /\ pc \notin {"rr_write", "rr_sleep", "rr_read", "rr_return"}

\* C1 witness: a read-register command went out on a constructed object
ReadCommandWritten ==
    \E i \in DOMAIN log :
        IsWrite(log[i]) /\ log[i].by = "read_register" /\ log[i].ok

\* a handshake that has returned
ConfigureReturned ==
    /\ op \in {"__init__", "set_configuration"}
    /\ pc = "idle"
    /\ result = [kind |-> "None"]

\* C2: a successful configure makes exactly: write of the configuration
\* command, settle delay, read(32), write of the trigger command, read(32);
\* the trigger command is never written before the first read has been done.
ConfigureSequence ==
    /\ ConfigureReturned =>
          /\ Len(log) = 5
          /\ IsWrite(log[1]) /\ log[1].ok /\ log[1].data = s
          /\ s # TriggerCommand
          /\ IsSleep(log[2])
          /\ IsRead(log[3]) /\ log[3].ok /\ log[3].n = 32
          /\ IsTriggerWrite(log[4]) /\ log[4].ok
          /\ IsRead(log[5]) /\ log[5].ok /\ log[5].n = 32
    /\ \A i \in DOMAIN log :
          IsTriggerWrite(log[i]) =>
              /\ i = 4
              /\ IsRead(log[3]) /\ log[3].ok
              /\ IsWrite(log[1]) /\ ~IsTriggerWrite(log[1])

\* C2 witness: set_configuration called on the object has returned
ReconfigureReturned == ConfigureReturned /\ op = "set_configuration"

\* the parameters the configuration accepts
AcceptedParameters ==
    /\ args.lux_full_scale \in 0..12
    /\ args.convertion_time \in {100, 800}

\* C3: every value handed to write is a frame of exactly 32 bytes: the
\* read-register command for every address in [0,15], the configuration
\* command for every accepted parameter combination, the trigger command.
EveryFrame32Bytes ==
    \A i \in DOMAIN log :
        (IsWrite(log[i]) /\ (log[i].by = "set_configuration" => AcceptedParameters))
            => (log[i].data.type = "bytes" /\ Len(log[i].data.data) = 32)

\* C4 as stated: no read on the transport directly follows a write
NoReadDirectlyAfterWrite ==
    \A i \in DOMAIN log :
        (IsRead(log[i]) /\ i > 1) => ~IsWrite(log[i - 1])

\* C4, amended: on the read-register exchange and on the exchange of the
\* configuration command a settle delay lies between the write and the read;
\* on the exchange of the trigger command the read directly follows the
\* write, without a settle delay.
SettleDelayExceptTrigger ==
    \A i \in DOMAIN log :
        IsRead(log[i]) =>
            /\ i > 1
            /\ IF IsWrite(log[i - 1])
               THEN IsTriggerWrite(log[i - 1]) /\ log[i - 1].ok
               ELSE /\ IsSleep(log[i - 1])
                    /\ i > 2
                    /\ IsWrite(log[i - 2]) /\ log[i - 2].ok
                    /\ log[i - 2].by = "set_configuration"
                           => ~IsTriggerWrite(log[i - 2])

\* C4 witness: an exchange with and an exchange without the delay are done
BothKindsOfExchangeDone ==
    /\ op = "set_configuration"
    /\ Len(log) = 5
    /\ IsSleep(log[2]) /\ IsRead(log[3])
    /\ IsWrite(log[4]) /\ IsRead(log[5])

\* C5: read_register with an address outside [0,15] fails with the
\* invalid-register error before any transport activity: nothing is written,
\* nothing is read, and the object is as it was.
BadAddressRejected ==
    (op = "read_register" /\ (args.position < 0 \/ args.position > 15)) =>
        /\ pc = "idle"
        /\ result = Raised("ValueError")
        /\ log = << >>
        /\ s = NoCommand
        /\ output_bytes = NoBytes
        /\ session = "ready"
        /\ HandshakeDone(ctorLog)

\* C5 witness: read_register(16) has been refused
Address16Refused ==
    /\ op = "read_register"
    /\ args.position = 16
    /\ result = Raised("ValueError")

ExpectedReadFrame(a) ==
    <<2, 1, 0, 14, 174, 252, 0, 3, 136, 6, a, 6, 4, 3, 137, 6,
      255, 5, 255, 5, 4, 0, 0, 0, 0, 0, 0, 0, 0, 0, 0, 0>>

\* C7: for every address a in [0,15] the frame read_register(a) writes is
\* 02 01 00 0E AE FC 00 03 88 06 <a> 06 04 03 89 06 FF 05 FF 05 04 and
\* zeros up to 32 bytes; only the byte at offset 10 depends on a.
ReadFrameLayout ==
    (op = "read_register" /\ args.position \in 0..15 /\ pc # "rr_write") =>
        /\ Len(log) >= 1
        /\ IsWrite(log[1])
        /\ log[1].by = "read_register"
        /\ log[1].data.type = "bytes"
        /\ log[1].data.data = ExpectedReadFrame(args.position)
        /\ \A i \in DOMAIN log : IsWrite(log[i]) => i = 1

\* C7 witness: the frame for register 15 has been written
Register15FrameWritten ==
    /\ op = "read_register"
    /\ args.position = 15
    /\ Len(log) >= 1
    /\ IsWrite(log[1]) /\ log[1].ok

\* the 32 bytes C8 expects for a full scale and a mode word
ExpectedConfigFrame(full_scale, mode_word) ==
    <<2, 1, 0, 10, 170, 192, 0, 3, 136, 6, 1, 6, full_scale, mode_word,
      6, 16, 6, 4, 0, 0, 0, 0, 0, 0, 0, 0, 0, 0, 0, 0, 0, 0>>

\* the mode word of the call: the numeric value of the mode, doubled at 800 ms
ExpectedModeWord ==
    OperationModes[args.mode] * (IF args.convertion_time = 100 THEN 1 ELSE 2)

\* C8: for accepted parameters the first frame configure writes is
\* 02 01 00 0A AA C0 00 03 88 06 01 06 <full_scale> <mode_word> 06 10 06 04
\* and zeros, full_scale and mode_word being one byte (two hex digits) each.
ConfigFrameLayout ==
    (/\ op \in {"__init__", "set_configuration"}
     /\ AcceptedParameters
     /\ Len(log) >= 1) =>
        /\ IsWrite(log[1])
        /\ log[1].data.type = "bytes"
        /\ log[1].data.data =
               ExpectedConfigFrame(args.lux_full_scale, ExpectedModeWord)

\* the bytes of the response at offsets 9 and 11
HighByte == output_bytes.data[10]

LowByte == output_bytes.data[12]

\* C9: read_lux returns, in hundredths of a lux,
\* 2^(a div 16) * ((a mod 16) * 256 + b) for the bytes a and b at offsets 9
\* and 11 of the response; a = 0x1A, b = 0x2B gives 5206.
LuxFormula ==
    (op = "read_lux" /\ pc = "idle" /\ output_bytes.len >= 12) =>
        /\ result.kind = "lux"
        /\ result.val =
               (2 ^ (HighByte \div 16)) * ((HighByte % 16) * 256 + LowByte)
        /\ (HighByte = 26 /\ LowByte = 43) => result.val = 5206

\* C9 witness: read_lux has returned for the response bytes 0x1A and 0x2B
LuxOfExampleReturned ==
    /\ op = "read_lux"
    /\ pc = "idle"
    /\ output_bytes.len = 32
    /\ HighByte = 26
    /\ LowByte = 43
    /\ result.kind = "lux"

\* C10: read_register with a valid address returns the bytes at offsets 9
\* and 11 of the response, unmodified, when the response has at least 12
\* bytes, and fails with the short-response error (IndexError) otherwise.
PairOrShortResponse ==
    (op = "read_register" /\ pc = "idle" /\ output_bytes # NoBytes) =>
        IF output_bytes.len >= 12
        THEN result = [kind |-> "pair", a |-> HighByte, b |-> LowByte]
        ELSE result = Raised("IndexError")

\* C10 witness: a response of 11 bytes made read_register fail
ShortResponseRaised ==
    /\ op = "read_register"
    /\ pc = "idle"
    /\ output_bytes.len = 11
    /\ result = Raised("IndexError")

ReadAllReturned ==
    /\ op = "read_all"
    /\ pc = "idle"
    /\ result.kind = "list"

\* the pair the device of known content holds in register r
PairOfRegister(r) ==
    [kind |-> "pair", a |-> RegisterFile[r].hi, b |-> RegisterFile[r].lo]

\* C11: read_all_registers makes exactly 16 exchanges, addressed 0, 1, ...,
\* 15 in ascending order, each write issued only after the read of the
\* exchange before it, and element k of the list it returns is the reply to
\* the frame addressed to register k.
ReadAllInAddressOrder ==
    /\ op = "read_all" =>
          \A i \in 1..Len(log) :
             /\ IsWrite(log[i]) <=> i % 3 = 1
             /\ IsSleep(log[i]) <=> i % 3 = 2
             /\ IsRead(log[i]) <=> i % 3 = 0
             /\ IsWrite(log[i]) =>
                   log[i].data = Bytes(ExpectedReadFrame((i - 1) \div 3))
             /\ IsRead(log[i]) => log[i].n = ReadLength
    /\ ReadAllReturned =>
          /\ Len(log) = 3 * 16
          /\ \A i \in 1..Len(log) : ~Failed(log[i])
          /\ Len(result.items) = 16
          /\ \A r \in 0..15 : result.items[r + 1] = PairOfRegister(r)

\* C11 witness: read_all_registers has returned its list of 16 pairs
ReadAllReturnedSixteen ==
    /\ ReadAllReturned
    /\ Len(result.items) = 16
    /\ result.items[1] # result.items[16]

\* C12: no automatic retry.  A transport write or read that fails during
\* read_register, read_lux, read_all_registers or set_configuration is the
\* last transport event of the operation, which ends with that error handed
\* to the caller: no trigger frame follows a failed first step, and
\* read_all_registers stops at the first failing register.
NoRetryAfterFailure ==
    \A i \in 1..Len(log) :
       Failed(log[i]) =>
          /\ i = Len(log)
          /\ pc = "idle"
          /\ result = Raised("USBError")

\* C12 witness: read_all_registers ended at a failing register after it had
\* collected at least one pair
ReadAllStoppedAtFailure ==
    /\ op = "read_all"
    /\ pc = "idle"
    /\ Len(results) >= 1
    /\ Len(log) > 3
    /\ Failed(log[Len(log)])
    /\ result = Raised("USBError")

ExpectedTriggerFrame ==
    [i \in 1..32 |-> IF i = 1 THEN 4 ELSE IF i = 2 THEN 3 ELSE 0]

\* C13: construction configures the device with the defaults full_scale 12,
\* conversion time 800, mode continuous: the first frame written on the
\* transport of a new object is the configuration frame encoding full_scale
\* 12 and mode word 4 * 2 = 8, and the second frame written is the
\* ack-trigger frame.
ConstructionWritesDefaultFrames ==
    session = "ready" =>
        /\ HandshakeDone(ctorLog)
        /\ ctorLog[1] = WriteEvent("set_configuration",
                                   Bytes(ExpectedConfigFrame(12, 8)), TRUE)
        /\ ctorLog[4] = WriteEvent("set_configuration",
                                   Bytes(ExpectedTriggerFrame), TRUE)

\* C14: set_configuration may be called again at any point after
\* construction, with reads in between; every call that returns has made the
\* same two-step handshake, and two calls with identical parameters hand
\* write the same pair of values (configuration command, trigger command),
\* whatever was called between them.
SameParametersSameFrames ==
    /\ ConfigureReturned => HandshakeDone(log)
    /\ (remembered # NoMemory /\ ConfigureReturned
            /\ args = remembered.args) =>
          /\ log[1].data = remembered.first
          /\ log[4].data = remembered.second

\* C14 witness: a set_configuration call with the parameters of the
\* construction has returned, the construction's handshake being the one
\* kept for comparison
DefaultsConfiguredAgain ==
    /\ remembered.by = "__init__"
    /\ op = "set_configuration"
    /\ ConfigureReturned
    /\ args = remembered.args
    /\ log[1].data = remembered.first

BySecond(e) == e.by = "second"

\* the transport saw: write of the first thread, write of the second, read
\* of the second, read of the first, all successful
CrossedOrder ==
    \E w1, w2, r2, r1 \in 1..Len(log) :
       /\ w1 < w2 /\ w2 < r2 /\ r2 < r1
       /\ IsWrite(log[w1]) /\ log[w1].ok /\ ~BySecond(log[w1])
       /\ IsWrite(log[w2]) /\ log[w2].ok /\ BySecond(log[w2])
       /\ IsRead(log[r2]) /\ log[r2].ok /\ BySecond(log[r2])
       /\ IsRead(log[r1]) /\ log[r1].ok /\ ~BySecond(log[r1])

\* C15: the object does not serialize its callers.  While one thread is
\* between the write and the read of read_register, a second thread's write
\* can go out; and when the transport then sees write A, write B, read B,
\* read A against a device that answers in FIFO order, each thread is handed
\* the reply to the other thread's frame and returns the other register's
\* content.
RepliesCrossWithoutLock ==
    /\ (pc \in {"rr_sleep", "rr_read"} /\ second.pc = "rr_write") =>
          ENABLED SecondWrite
    /\ CrossedOrder =>
          /\ answered = second.s
          /\ second.answered = s
          /\ (pc = "idle" /\ result.kind = "pair") =>
                result = PairOfRegister(second.position)
          /\ (second.pc = "idle" /\ second.result.kind = "pair") =>
                second.result = PairOfRegister(args.position)

\* C15 witness: the thread that asked for register 0 returned the content
\* of register 5 and the thread that asked for register 5 returned the
\* content of register 0
BothRepliesCrossed ==
    /\ CrossedOrder
    /\ pc = "idle"
    /\ second.pc = "idle"
    /\ args.position = 0
    /\ second.position = 5
    /\ result = PairOfRegister(5)
    /\ second.result = PairOfRegister(0)
    /\ result # second.result

\* one write, the sleep, one read(32), all successful, and nothing else
OneExchange(l) ==
    /\ Len(l) = 3
    /\ IsWrite(l[1]) /\ l[1].ok
    /\ IsSleep(l[2])
    /\ IsRead(l[3]) /\ l[3].ok /\ l[3].n = ReadLength

\* C16: a read_register call that returns a pair has made exactly one
\* transport write followed by exactly one read(32) and nothing else on the
\* transport; a read_lux call that returns a value has made exactly one such
\* exchange, and its frame addresses register 0.
SuccessfulReadIsOneExchange ==
    /\ (op = "read_register" /\ pc = "idle" /\ result.kind = "pair") =>
          /\ OneExchange(log)
          /\ log[1].data = Bytes(ExpectedReadFrame(args.position))
    /\ (op = "read_lux" /\ pc = "idle" /\ result.kind = "lux") =>
          /\ OneExchange(log)
          /\ log[1].data = Bytes(ExpectedReadFrame(0))

\* C16 witness: read_lux has returned a value after its one exchange
ReadLuxDidOneExchange ==
    /\ op = "read_lux"
    /\ pc = "idle"
    /\ result.kind = "lux"
    /\ Len(log) = 3
    /\ IsWrite(log[1])
    /\ IsRead(log[3])

NothingFailed == \A i \in 1..Len(log) : ~Failed(log[i])

\* the writes and reads of a record, without the sleeps
TransportCalls(l) == SelectSeq(l, LAMBDA e : ~IsSleep(e))

\* writes and reads take turns, at most one command awaits its reply, none
\* awaits one between operations, and a read of read_register is answered
\* with the reply to the command that call wrote
OneOutstanding ==
    /\ \A i \in 1..Len(TransportCalls(log)) :
          IsWrite(TransportCalls(log)[i]) <=> i % 2 = 1
    /\ Len(pending) <= 1
    /\ Len(pending) = 1 <=>
          (log # << >> /\ IsWrite(TransportCalls(log)[Len(TransportCalls(log))]))
    /\ pc = "idle" => pending = << >>
    /\ pc = "rr_return" =>
          /\ answered = s
          /\ output_bytes = ReplyTo(s, output_bytes.len)
    /\ (op = "read_register" /\ pc = "idle" /\ result.kind = "pair") =>
          result = PairOfRegister(args.position)

\* C17: with one caller and a transport that never fails, after any
\* sequence of set_configuration, read_register, read_lux and
\* read_all_registers calls the transport calls alternate write, read,
\* write, read: at most one frame awaits its reply, none does between
\* operations, and under FIFO reply order every read_register returns the
\* reply to the frame it wrote itself.
SingleCallerAlternates == ([]NothingFailed) => []OneOutstanding

\* C17 witness: without a failure, read_register of register 7 has returned
\* register 7's content and no command awaits a reply
OwnReplyReturned ==
    /\ op = "read_register"
    /\ pc = "idle"
    /\ NothingFailed
    /\ args.position = 7
    /\ result = PairOfRegister(7)
    /\ pending = << >>

\* C18: a read-register frame is written only while the most recently
\* started set_configuration handshake has completed both of its steps;
\* after a reconfiguration that failed partway no read-register frame is
\* sent until a later set_configuration succeeds.
ReadsOnlyWhileConfigured ==
    \A i \in 1..Len(log) :
       (IsWrite(log[i]) /\ log[i].by = "read_register") => configured

\* C19: for every operating mode (values 0, 2, 4, 6) and every accepted
\* conversion time (100 or 800) the product mode.value * multiplier is at
\* most 0xFF and its hex text has at most two digits, the continuous-variant
\* mode with the 800 ms multiplier included; no accepted combination
\* overflows the mode field of the command that is written.
ModeWordFitsOneByte ==
    /\ \A mode \in ModeNames, convertion_time \in {100, 800} :
          /\ OperationModes[mode]
                * convertion_time_multiplier(convertion_time) <= 255
          /\ Len(mode_hex(convertion_time, mode)) <= 2
    /\ \A i \in 1..Len(log) :
          (IsWrite(log[i]) /\ log[i].by = "set_configuration"
               /\ ~IsTriggerWrite(log[i])
               /\ args.convertion_time \in {100, 800}) =>
             /\ ExpectedModeWord <= 255
             /\ log[i].data =
                   ConfigurationCommand(args.lux_full_scale,
                                        args.convertion_time, args.mode)
             /\ Len(log[i].data.data)
                   <= Len(ConfigurationCommand(0, 100, "shutdown").data) + 1

\* C19 witness: set_configuration has written the command for the
\* continuous-variant mode with conversion time 800, whose mode word is
\* 6 * 2 = 12, one hex digit
LargestModeWordWritten ==
    /\ op = "set_configuration"
    /\ args.mode = "conntinuous_3"
    /\ args.convertion_time = 800
    /\ Len(log) >= 1
    /\ IsWrite(log[1])
    /\ ExpectedModeWord = 12
    /\ mode_hex(args.convertion_time, args.mode) = <<"c">>

====
